---------------------------- MODULE Spec2Model ----------------------------
(***************************************************************************)
(* Detail form controller of insa_manager (employee_detail.js).            *)
(*                                                                         *)
(* The repository holds two variants of the same script:                   *)
(*   "main"   : src/static/scripts/employee_detail.js                      *)
(*   "legacy" : src/unnamed/part_000                                       *)
(* The model carries the variant as a variable fixed at page load and      *)
(* translates each handler of each variant.  Init is the document as       *)
(* parsed, the first step is the DOMContentLoaded handler and every later  *)
(* step is one event handler or one deferred callback, run to completion.  *)
(***************************************************************************)
EXTENDS Integers, Sequences, FiniteSets, TLC

VARIABLES
    variant,       \* which of the two script files the page loads
    html,          \* the form the page was served with (never changes)
    ready,         \* the DOMContentLoaded handler has run
    tabActive,     \* .tab element -> has class "active"
    ariaSelected,  \* .tab element -> value of aria-selected
    secActive,     \* section id -> has class "active"
    secHidden,     \* section id -> hidden attribute
    value,         \* form field -> its value (a sequence of characters)
    disabled,      \* form field -> disabled property
    height,        \* form field -> inline style height, 0 while the script has set none
    dirty,         \* the closure variable dirty (main variant)
    editLabel,     \* editBtn.textContent
    saveDisplay,   \* saveBtn.style.display
    loading,       \* #loading has class "active"
    submitCalls,   \* number of form.requestSubmit()/form.submit() calls made
    rafQueue,      \* pending requestAnimationFrame callbacks (their section)
    pasteTimers,   \* form field -> pending setTimeout(..., 0) callbacks
    submitTimers,  \* pending setTimeout(() => form.submit(), 300) callbacks
    ev             \* the event object of the last handler that ran

vars == << variant, html, ready, tabActive, ariaSelected, secActive, secHidden,
           value, disabled, height, dirty, editLabel, saveDisplay, loading,
           submitCalls, rafQueue, pasteTimers, submitTimers, ev >>

-----------------------------------------------------------------------------
(* Bounds of the model *)

MaxRaf == 1
MaxPaste == 1
MaxSubmits == 2
MaxLen == 5

-----------------------------------------------------------------------------
(* Characters and texts.  A text is a sequence of one-character strings.   *)

LF == "LF"
CR == "CR"
SP == " "
COMMA == ","

\* \s of the regular expressions and the set String.prototype.trim strips
IsSpace(c) == c \in {SP, LF, CR}

RECURSIVE ReplaceCRLF(_)
\* v.replace(/\r\n/g, '\n')
ReplaceCRLF(s) ==
    IF s = << >> THEN << >>
    ELSE IF Len(s) >= 2 /\ s[1] = CR /\ s[2] = LF
         THEN << LF >> \o ReplaceCRLF(SubSeq(s, 3, Len(s)))
         ELSE << s[1] >> \o ReplaceCRLF(Tail(s))

RECURSIVE SpaceRun(_)
\* length of the longest prefix of s made of \s characters
SpaceRun(s) ==
    IF s = << >> \/ ~IsSpace(s[1]) THEN 0 ELSE 1 + SpaceRun(Tail(s))

\* the lengths j that \s* may take at the head of s so that (?!\n) holds after it
CommaMatchLens(s) ==
    { j \in 0..SpaceRun(s) : ~(j < Len(s) /\ s[j + 1] = LF) }

Max(S) == CHOOSE x \in S : \A y \in S : y <= x

RECURSIVE CommaNewlineKeepSpace(_)
\* a pattern that forgets \s*: v.replace(/,/g, ',\n')
CommaNewlineKeepSpace(s) ==
    IF s = << >> THEN << >>
    ELSE IF s[1] = COMMA
         THEN << COMMA, LF >> \o CommaNewlineKeepSpace(Tail(s))
         ELSE << s[1] >> \o CommaNewlineKeepSpace(Tail(s))

RECURSIVE CommaNewline(_)
\* v.replace(/,\s*(?!\n)/g, ',\n') : \s* is greedy and backtracks
CommaNewline(s) ==
    IF s = << >> THEN << >>
    ELSE IF s[1] = COMMA /\ CommaMatchLens(Tail(s)) # {}
         THEN LET j == Max(CommaMatchLens(Tail(s)))
              IN  << COMMA, LF >> \o CommaNewline(SubSeq(s, j + 2, Len(s)))
         ELSE << s[1] >> \o CommaNewline(Tail(s))

RECURSIVE TrimStart(_)
TrimStart(s) ==
    IF s # << >> /\ IsSpace(s[1]) THEN TrimStart(Tail(s)) ELSE s

RECURSIVE TrimEnd(_)
TrimEnd(s) ==
    IF s # << >> /\ IsSpace(s[Len(s)]) THEN TrimEnd(SubSeq(s, 1, Len(s) - 1)) ELSE s

\* a trim that strips the head only (trimStart)
TrimStartOnly(s) == TrimStart(s)

\* String.prototype.trim
Trim(s) == TrimEnd(TrimStart(s))

RECURSIVE LfRun(_)
LfRun(s) == IF s = << >> \/ s[1] # LF THEN 0 ELSE 1 + LfRun(Tail(s))

RECURSIVE CollapseNewlines(_)
\* v.replace(/\n{3,}/g, '\n\n')
CollapseNewlines(s) ==
    IF s = << >> THEN << >>
    ELSE IF LfRun(s) >= 3
         THEN << LF, LF >> \o CollapseNewlines(SubSeq(s, LfRun(s) + 1, Len(s)))
         ELSE IF LfRun(s) >= 1
              THEN SubSeq(s, 1, LfRun(s)) \o CollapseNewlines(SubSeq(s, LfRun(s) + 1, Len(s)))
              ELSE << s[1] >> \o CollapseNewlines(Tail(s))

\* normalizeCommaNewlines, as a function of el.value
normalizeCommaNewlines(v) ==
    CollapseNewlines(Trim(CommaNewline(ReplaceCRLF(v))))

-----------------------------------------------------------------------------
(* The page.  Elements with class "tab", in DOM order: three tabs and the  *)
(* resume (PDF) icon, which has role="button" and no data-target.          *)

None == "none"

SectionOrder == << "basic-info", "career", "family" >>
Sections == { SectionOrder[i] : i \in 1..Len(SectionOrder) }

TabBar == << [role |-> "tab",    target |-> "basic-info"],
             [role |-> "tab",    target |-> "career"],
             [role |-> "tab",    target |-> "family"],
             [role |-> "button", target |-> None] >>
TabEls == 1..Len(TabBar)

\* document.querySelectorAll('.tab[role="tab"]') / document.querySelectorAll('.tab')
TabsOf(v) ==
    IF v = "main"
    THEN SelectSeq([i \in TabEls |-> i], LAMBDA i : TabBar[i].role = "tab")
    ELSE [i \in TabEls |-> i]
tabs == TabsOf(variant)

SeqRange(s) == { s[i] : i \in 1..Len(s) }

\* Array.prototype.indexOf, 0-based, on a sequence without duplicates
IndexOf(arr, x) == (CHOOSE i \in 1..Len(arr) : arr[i] = x) - 1

(* Forms the page may hold.  A field is [tag, readonly, list, grow, section]: *)
(* list = class auto-list, grow = class auto-grow, section = the profile   *)
(* section the field lies in.                                              *)
Field(tag, ro, list, grow, sec) ==
    [tag |-> tag, readonly |-> ro, list |-> list, grow |-> grow, section |-> sec]

FormNames == { "full", "empty" }

FormOf(name) ==
    CASE name = "full" ->
           [fields  |-> << Field("input", TRUE, FALSE, FALSE, "basic-info"),
                           Field("select", FALSE, FALSE, FALSE, "basic-info"),
                           Field("textarea", FALSE, TRUE, TRUE, "career") >>,
            editBtn |-> TRUE, saveBtn |-> TRUE, loading |-> TRUE]
      [] name = "empty" ->
           [fields  |-> << Field("input", TRUE, FALSE, FALSE, "basic-info") >>,
            editBtn |-> TRUE, saveBtn |-> TRUE, loading |-> FALSE]

form == FormOf(html.form)
FieldsOf(f) == 1..Len(f.fields)
Fields == FieldsOf(form)

\* a selector that forgets :not([readonly]): 'input, select, textarea'
InputsWithReadonly(f) == [i \in FieldsOf(f) |-> i]

\* form.querySelectorAll('input:not([readonly]), select, textarea')
InputsOf(f) ==
    SelectSeq([i \in FieldsOf(f) |-> i],
              LAMBDA i : \/ f.fields[i].tag = "input" /\ ~f.fields[i].readonly
                         \/ f.fields[i].tag = "select"
                         \/ f.fields[i].tag = "textarea")
inputs == InputsOf(form)

\* form.querySelectorAll('textarea.auto-list')
ListAreasOf(f) ==
    { i \in FieldsOf(f) : f.fields[i].tag = "textarea" /\ f.fields[i].list }
listAreas == ListAreasOf(form)

\* form.querySelectorAll('textarea.auto-grow')
GrowAreasOf(f) ==
    { i \in FieldsOf(f) : f.fields[i].tag = "textarea" /\ f.fields[i].grow }
growAreas == GrowAreasOf(form)

(* Texts the markup may carry in a text area and texts the user may type.  *)
(* The value of a textarea never holds a carriage return: the DOM          *)
(* normalizes line breaks of the API value.                                *)
MarkupTexts == { << "a" >>, << "a", COMMA, SP, "b" >> }
TypedTexts  == { << "a", COMMA, "b" >>, << "a", LF, LF, LF, "b" >> }

(* The markup the page is served with:                                     *)
(*   form       which form the page holds                                  *)
(*   active     the section carrying class "active", None if none does     *)
(*   hidden     whether the other sections carry the hidden attribute      *)
(*   tabsMarked whether the tab of the active section carries class        *)
(*              "active" and the tabs carry aria-selected                  *)
(*   text       the text of the text areas                                 *)
Markups ==
    [form : FormNames, active : Sections \cup {None}, hidden : BOOLEAN,
     tabsMarked : BOOLEAN, text : MarkupTexts]

EditText   == "edit"     \* '수정'
CancelText == "cancel"   \* '취소'

(* The event object of a handler run: its type, the element it was         *)
(* dispatched to (a .tab element or a form field, 0 if neither), its key,  *)
(* whether the handler called preventDefault() and the .tab element the    *)
(* handler called focus() on (0 if none).                                  *)
Event(type, target, key, prevented, focused) ==
    [type |-> type, target |-> target, key |-> key,
     defaultPrevented |-> prevented, focused |-> focused]

-----------------------------------------------------------------------------
(* Layout *)

\* a section is laid out when it has class "active" (stylesheet) and no hidden attribute
Displayed(sec) == secActive[sec] /\ ~secHidden[sec]

RECURSIVE CountLF(_)
CountLF(s) == IF s = << >> THEN 0 ELSE (IF s[1] = LF THEN 1 ELSE 0) + CountLF(Tail(s))

\* el.scrollHeight, in lines: 0 when the element is not laid out
ScrollHeight(f, v) ==
    IF Displayed(form.fields[f].section) THEN CountLF(v) + 1 ELSE 0

ResizeOffset == 2

\* autoResize(el): the height it leaves in el.style.height, for el.value = v
autoResize(f, v) == ScrollHeight(f, v) + ResizeOffset

\* resizeTextareasIn(sectionEl) applied to the heights h
resizeTextareasIn(sec, h) ==
    IF sec = None THEN h
    ELSE [f \in Fields |->
            IF f \in growAreas /\ form.fields[f].section = sec
            THEN autoResize(f, value[f]) ELSE h[f]]

\* document.querySelector('.profile-section.active'): first match in DOM order
ActiveSectionOf(act) ==
    IF \E i \in 1..Len(SectionOrder) : act[SectionOrder[i]]
    THEN SectionOrder[CHOOSE i \in 1..Len(SectionOrder) :
                        /\ act[SectionOrder[i]]
                        /\ \A j \in 1..(i - 1) : ~act[SectionOrder[j]]]
    ELSE None

\* document.getElementById(id) among the profile sections
GetSectionById(id) == IF id \in Sections THEN id ELSE None

-----------------------------------------------------------------------------
(* The document as parsed, before the script's DOMContentLoaded handler.   *)

Variants == { "main", "legacy" }

MarkupValue(m) ==
    [i \in FieldsOf(FormOf(m.form)) |->
        IF FormOf(m.form).fields[i].tag = "textarea" THEN m.text ELSE << "a" >>]

Init ==
    \E v \in Variants, m \in Markups :
        /\ variant = v
        /\ html = [form |-> m.form]
        /\ ready = FALSE
        /\ tabActive = [t \in TabEls |-> /\ m.tabsMarked
                                         /\ TabBar[t].role = "tab"
                                         /\ TabBar[t].target = m.active]
        /\ ariaSelected = [t \in TabEls |->
                             IF ~m.tabsMarked \/ TabBar[t].role # "tab" THEN "unset"
                             ELSE IF TabBar[t].target = m.active THEN "true"
                             ELSE "false"]
        /\ secActive = [s \in Sections |-> s = m.active]
        /\ secHidden = [s \in Sections |-> m.hidden /\ s # m.active]
        /\ value = MarkupValue(m)
        /\ disabled = [i \in FieldsOf(FormOf(m.form)) |-> FALSE]
        /\ height = [i \in FieldsOf(FormOf(m.form)) |-> 0]
        /\ dirty = FALSE
        /\ editLabel = EditText
        /\ saveDisplay = "none"
        /\ loading = FALSE
        /\ submitCalls = 0
        /\ rafQueue = << >>
        /\ pasteTimers = [i \in FieldsOf(FormOf(m.form)) |-> 0]
        /\ submitTimers = 0
        /\ ev = Event("parsed", 0, "", FALSE, 0)

tabVars  == << tabActive, ariaSelected, secActive, secHidden >>
formVars == << value, disabled, height, dirty, editLabel, saveDisplay, loading,
               submitCalls, pasteTimers, submitTimers >>

-----------------------------------------------------------------------------
(* Page load: the DOMContentLoaded handler *)

\* main: sections.forEach(sec => sec.hidden = !sec.classList.contains('active'));
\* legacy: the hidden attributes stay as served
InitSecHidden ==
    IF variant = "main" THEN [s \in Sections |-> ~secActive[s]] ELSE secHidden

\* main:   const initialActive = document.querySelector('.profile-section.active')
\*                               || document.getElementById('basic-info');
\* legacy: const initialActive = document.querySelector('.profile-section.active');
initialActive ==
    IF variant = "main" /\ ActiveSectionOf(secActive) = None
    THEN GetSectionById("basic-info")
    ELSE ActiveSectionOf(secActive)

\* main:   requestAnimationFrame(() => resizeTextareasIn(initialActive));
\* legacy: if (initialActive) { requestAnimationFrame(...) }
InitRafQueue ==
    IF variant = "main" \/ initialActive # None THEN << initialActive >> ELSE << >>

\* listAreas.forEach((el) => normalizeCommaNewlines(el));
NormalizeListAreas ==
    [f \in Fields |-> IF f \in listAreas THEN normalizeCommaNewlines(value[f])
                      ELSE value[f]]

\* inputs.forEach((el) => (el.disabled = true));
InitDisabled == [f \in Fields |-> IF f \in SeqRange(inputs) THEN TRUE ELSE disabled[f]]

DOMContentLoaded ==
    /\ ~ready
    /\ ready' = TRUE
    /\ secHidden' = InitSecHidden
    /\ rafQueue' = InitRafQueue
    /\ value' = NormalizeListAreas
    /\ disabled' = InitDisabled
    /\ dirty' = FALSE
    /\ ev' = Event("DOMContentLoaded", 0, "", FALSE, 0)
    /\ UNCHANGED << variant, html, tabActive, ariaSelected, secActive, height,
                    editLabel, saveDisplay, loading, submitCalls, pasteTimers,
                    submitTimers >>

-----------------------------------------------------------------------------
(* Tab switcher *)

\* t.classList.toggle('active', active) over the tabs
ToggleTabs(tab) ==
    [t \in TabEls |-> IF t \in SeqRange(tabs) THEN t = tab ELSE tabActive[t]]

\* t.setAttribute('aria-selected', String(active)) over the tabs
SetAriaSelected(tab) ==
    [t \in TabEls |-> IF t \in SeqRange(tabs)
                      THEN (IF t = tab THEN "true" ELSE "false")
                      ELSE ariaSelected[t]]

\* section.classList.toggle('active', section.id === targetId) over the sections
ToggleSections(targetId) == [s \in Sections |-> s = targetId]

\* section.hidden = !active over the sections
SyncHidden(targetId) == [s \in Sections |-> ~(s = targetId)]

\* activateTab(tab) of the main variant
activateTab(tab) ==
    LET targetId == TabBar[tab].target IN
    /\ tabActive' = ToggleTabs(tab)
    /\ ariaSelected' = SetAriaSelected(tab)
    /\ secActive' = ToggleSections(targetId)
    /\ secHidden' = SyncHidden(targetId)
    /\ rafQueue' = Append(rafQueue, GetSectionById(targetId))

\* main: tab.addEventListener('click', () => activateTab(tab))
TabClick(tab) ==
    /\ ready
    /\ variant = "main"
    /\ tab \in SeqRange(tabs)
    /\ Len(rafQueue) < MaxRaf
    /\ activateTab(tab)
    /\ ev' = Event("click-tab", tab, "", FALSE, 0)
    /\ UNCHANGED << variant, html, ready, formVars >>

\* legacy: the click listener of every .tab element
LegacyTabClick(tab) ==
    /\ ready
    /\ variant = "legacy"
    /\ tab \in SeqRange(tabs)
    /\ Len(rafQueue) < MaxRaf
    /\ LET targetId == TabBar[tab].target IN
        /\ tabActive' = ToggleTabs(tab)
        /\ secActive' = ToggleSections(targetId)
        /\ rafQueue' = Append(rafQueue, GetSectionById(targetId))
    /\ ev' = Event("click-tab", tab, "", FALSE, 0)
    /\ UNCHANGED << variant, html, ready, ariaSelected, secHidden, formVars >>

Keys == { "ArrowRight", "ArrowLeft", "Enter" }

\* an index that is clamped at both ends instead of wrapping around
NextTabClamped(arr, idx, dir) ==
    arr[IF idx + dir < 0 THEN 1
        ELSE IF idx + dir >= Len(arr) THEN Len(arr) ELSE idx + dir + 1]

\* arr[(idx + dir + arr.length) % arr.length]
NextTab(arr, idx, dir) == arr[((idx + dir + Len(arr)) % Len(arr)) + 1]

\* main: the keydown listener of every tab
KeyDown(tab, key) ==
    /\ ready
    /\ variant = "main"
    /\ tab \in SeqRange(tabs)
    /\ IF key = "ArrowRight" \/ key = "ArrowLeft"
       THEN LET dir  == IF key = "ArrowRight" THEN 1 ELSE -1
                next == NextTab(tabs, IndexOf(tabs, tab), dir)
            IN  /\ Len(rafQueue) < MaxRaf
                /\ activateTab(next)
                /\ ev' = Event("keydown", tab, key, TRUE, next)
       ELSE /\ ev' = Event("keydown", tab, key, FALSE, 0)
            /\ UNCHANGED << tabVars, rafQueue >>
    /\ UNCHANGED << variant, html, ready, formVars >>

\* the animation frame: every queued callback runs, in the order queued
RECURSIVE RunFrame(_, _)
RunFrame(q, h) ==
    IF q = << >> THEN h ELSE RunFrame(Tail(q), resizeTextareasIn(Head(q), h))

AnimationFrame ==
    /\ rafQueue # << >>
    /\ height' = RunFrame(rafQueue, height)
    /\ rafQueue' = << >>
    /\ ev' = Event("animationframe", 0, "", FALSE, 0)
    /\ UNCHANGED << variant, html, ready, tabVars, value, disabled, dirty, editLabel,
                    saveDisplay, loading, submitCalls, pasteTimers, submitTimers >>

-----------------------------------------------------------------------------
(* Text normalizer / auto-sizer *)

\* a field the user can act on: enabled, not read-only, laid out
Editable(f) ==
    /\ f \in Fields
    /\ ~disabled[f]
    /\ ~form.fields[f].readonly
    /\ Displayed(form.fields[f].section)

\* what the user may change the value of field f to
Typable(f) ==
    IF form.fields[f].tag = "textarea" THEN TypedTexts ELSE { << "b" >> }

\* main: form.addEventListener('input', () => { if (!dirty) dirty = true; });
\* the legacy variant has no such listener
InputDirty == IF variant = "main" THEN TRUE ELSE dirty

\* an input event on field f after the user changed its value to txt:
\*   growAreas: el.addEventListener('input', () => autoResize(el))
\*   main: form.addEventListener('input', () => { if (!dirty) dirty = true; })
Input(f, txt) ==
    /\ ready
    /\ Editable(f)
    /\ txt \in Typable(f)
    /\ value' = [value EXCEPT ![f] = txt]
    /\ height' = IF f \in growAreas
                 THEN [height EXCEPT ![f] = autoResize(f, txt)]
                 ELSE height
    /\ dirty' = InputDirty
    /\ ev' = Event("input", f, "", FALSE, 0)
    /\ UNCHANGED << variant, html, ready, tabVars, disabled, editLabel, saveDisplay,
                    loading, submitCalls, rafQueue, pasteTimers, submitTimers >>

\* listAreas: el.addEventListener('paste', () => { setTimeout(..., 0); })
Paste(f) ==
    /\ ready
    /\ f \in listAreas
    /\ Editable(f)
    /\ pasteTimers[f] < MaxPaste
    /\ pasteTimers' = [pasteTimers EXCEPT ![f] = @ + 1]
    /\ ev' = Event("paste", f, "", FALSE, 0)
    /\ UNCHANGED << variant, html, ready, tabVars, value, disabled, height, dirty,
                    editLabel, saveDisplay, loading, submitCalls, rafQueue,
                    submitTimers >>

\* the deferred callback of paste: normalizeCommaNewlines(el); autoResize(el);
PasteTimeout(f) ==
    /\ f \in Fields
    /\ pasteTimers[f] > 0
    /\ pasteTimers' = [pasteTimers EXCEPT ![f] = @ - 1]
    /\ value' = [value EXCEPT ![f] = normalizeCommaNewlines(@)]
    /\ height' = [height EXCEPT ![f] = autoResize(f, normalizeCommaNewlines(value[f]))]
    /\ ev' = Event("timeout-paste", f, "", FALSE, 0)
    /\ UNCHANGED << variant, html, ready, tabVars, disabled, dirty, editLabel,
                    saveDisplay, loading, submitCalls, rafQueue, submitTimers >>

\* listAreas: el.addEventListener('blur', ...): the field had the focus
Blur(f) ==
    /\ ready
    /\ f \in listAreas
    /\ Editable(f)
    /\ value' = [value EXCEPT ![f] = normalizeCommaNewlines(@)]
    /\ height' = [height EXCEPT ![f] = autoResize(f, normalizeCommaNewlines(value[f]))]
    /\ ev' = Event("blur", f, "", FALSE, 0)
    /\ UNCHANGED << variant, html, ready, tabVars, disabled, dirty, editLabel,
                    saveDisplay, loading, submitCalls, rafQueue, pasteTimers,
                    submitTimers >>

-----------------------------------------------------------------------------
(* Edit / save toggle *)

\* const isDisabled = inputs[0] ? inputs[0].disabled : true;
IsDisabled == IF Len(inputs) > 0 THEN disabled[inputs[1]] ELSE TRUE

\* inputs.forEach((el) => (el.disabled = !isDisabled));
ToggleInputs(isDisabled) ==
    [f \in Fields |-> IF f \in SeqRange(inputs) THEN ~isDisabled ELSE disabled[f]]

\* a cancel branch that forgets to reset the flag
CancelDirtyKept == dirty

\* main: dirty = false; in the cancel branch (the legacy variant has no dirty flag)
CancelDirty == IF variant = "main" THEN FALSE ELSE dirty

\* an edit listener that also empties every field
EditClickReverting ==
    /\ ready
    /\ form.editBtn
    /\ disabled' = ToggleInputs(IsDisabled)
    /\ value' = [f \in Fields |-> << >>]
    /\ IF IsDisabled
       THEN /\ Len(rafQueue) < MaxRaf
            /\ editLabel' = CancelText
            /\ saveDisplay' = IF form.saveBtn THEN "inline-block" ELSE saveDisplay
            /\ rafQueue' = Append(rafQueue, ActiveSectionOf(secActive))
            /\ UNCHANGED dirty
       ELSE /\ dirty' = CancelDirty
            /\ editLabel' = EditText
            /\ saveDisplay' = IF form.saveBtn THEN "none" ELSE saveDisplay
            /\ UNCHANGED rafQueue
    /\ ev' = Event("click-edit", 0, "", FALSE, 0)
    /\ UNCHANGED << variant, html, ready, tabVars, height, loading,
                    submitCalls, pasteTimers, submitTimers >>

\* the click listener of editBtn
EditClick ==
    /\ ready
    /\ form.editBtn
    /\ disabled' = ToggleInputs(IsDisabled)
    /\ IF IsDisabled
       THEN /\ Len(rafQueue) < MaxRaf
            /\ editLabel' = CancelText
            /\ saveDisplay' = IF form.saveBtn THEN "inline-block" ELSE saveDisplay
            /\ rafQueue' = Append(rafQueue, ActiveSectionOf(secActive))
            /\ UNCHANGED dirty
       ELSE /\ dirty' = CancelDirty
            /\ editLabel' = EditText
            /\ saveDisplay' = IF form.saveBtn THEN "none" ELSE saveDisplay
            /\ UNCHANGED rafQueue
    /\ ev' = Event("click-edit", 0, "", FALSE, 0)
    /\ UNCHANGED << variant, html, ready, tabVars, value, height, loading,
                    submitCalls, pasteTimers, submitTimers >>

-----------------------------------------------------------------------------
(* Submission flow *)

\* if (loading) loading.classList.add('active');
ShowLoading == IF form.loading THEN TRUE ELSE loading

\* a save listener that also clears the dirty flag
SaveClickClearingDirty ==
    /\ ready
    /\ variant = "main"
    /\ form.saveBtn
    /\ saveDisplay # "none"
    /\ submitCalls < MaxSubmits
    /\ value' = NormalizeListAreas
    /\ loading' = ShowLoading
    /\ submitCalls' = submitCalls + 1
    /\ dirty' = FALSE
    /\ ev' = Event("click-save", 0, "", TRUE, 0)
    /\ UNCHANGED << variant, html, ready, tabVars, disabled, height,
                    editLabel, saveDisplay, rafQueue, pasteTimers, submitTimers >>

\* main: the click listener of saveBtn; the control is clickable while displayed
SaveClick ==
    /\ ready
    /\ variant = "main"
    /\ form.saveBtn
    /\ saveDisplay # "none"
    /\ submitCalls < MaxSubmits
    /\ value' = NormalizeListAreas
    /\ loading' = ShowLoading
    /\ submitCalls' = submitCalls + 1
    /\ ev' = Event("click-save", 0, "", TRUE, 0)
    /\ UNCHANGED << variant, html, ready, tabVars, disabled, height, dirty,
                    editLabel, saveDisplay, rafQueue, pasteTimers, submitTimers >>

\* legacy: the click listener of saveBtn defers the submission by 300 ms
LegacySaveClick ==
    /\ ready
    /\ variant = "legacy"
    /\ form.saveBtn
    /\ saveDisplay # "none"
    /\ submitCalls + submitTimers < MaxSubmits
    /\ value' = NormalizeListAreas
    /\ loading' = ShowLoading
    /\ submitTimers' = submitTimers + 1
    /\ ev' = Event("click-save", 0, "", TRUE, 0)
    /\ UNCHANGED << variant, html, ready, tabVars, disabled, height, dirty,
                    editLabel, saveDisplay, submitCalls, rafQueue, pasteTimers >>

\* legacy: the deferred callback () => form.submit()
SubmitTimeout ==
    /\ submitTimers > 0
    /\ submitTimers' = submitTimers - 1
    /\ submitCalls' = submitCalls + 1
    /\ ev' = Event("timeout-submit", 0, "", FALSE, 0)
    /\ UNCHANGED << variant, html, ready, tabVars, value, disabled, height, dirty,
                    editLabel, saveDisplay, loading, rafQueue, pasteTimers >>

\* main: window.addEventListener('beforeunload', ...): the user tries to leave
\* the page; preventDefault() makes the browser show its confirmation prompt
BeforeUnload ==
    /\ ready
    /\ variant = "main"
    /\ ev' = Event("beforeunload", 0, "", dirty, 0)
    /\ UNCHANGED << variant, html, ready, tabVars, formVars, rafQueue >>

-----------------------------------------------------------------------------

Next ==
    \/ DOMContentLoaded
    \/ \E tab \in TabEls : TabClick(tab)
    \/ \E tab \in TabEls : LegacyTabClick(tab)
    \/ \E tab \in TabEls, key \in Keys : KeyDown(tab, key)
    \/ AnimationFrame
    \/ \E f \in Fields, txt \in TypedTexts \cup { << "b" >> } : Input(f, txt)
    \/ \E f \in Fields : Paste(f)
    \/ \E f \in Fields : PasteTimeout(f)
    \/ \E f \in Fields : Blur(f)
    \/ EditClick
    \/ SaveClick
    \/ LegacySaveClick
    \/ SubmitTimeout
    \/ BeforeUnload

Spec == Init /\ [][Next]_vars

-----------------------------------------------------------------------------
(* The normalizer on every short text.  The page is loaded and in edit     *)
(* mode, the career section is shown, and the list text area holds any     *)
(* text of at most MaxLen characters over a letter, the comma, the space,  *)
(* LF and CR; the blur listener then applies normalizeCommaNewlines to it. *)

Alphabet == { "a", COMMA, SP, LF, CR }

\* every text of at most n characters
TextsUpTo(n) == UNION { [1..k -> Alphabet] : k \in 0..n }

NormFields == FieldsOf(FormOf("full"))
NormAreas  == ListAreasOf(FormOf("full"))

NormInit ==
    \E v \in Variants, x \in TextsUpTo(MaxLen) :
        /\ variant = v
        /\ html = [form |-> "full"]
        /\ ready = TRUE
        /\ tabActive = [t \in TabEls |-> TabBar[t].target = "career"]
        /\ ariaSelected = [t \in TabEls |->
                             IF TabBar[t].role # "tab" THEN "unset"
                             ELSE IF TabBar[t].target = "career" THEN "true"
                             ELSE "false"]
        /\ secActive = [s \in Sections |-> s = "career"]
        /\ secHidden = [s \in Sections |-> s # "career"]
        /\ value = [f \in NormFields |-> IF f \in NormAreas THEN x ELSE << "a" >>]
        /\ disabled = [f \in NormFields |-> FALSE]
        /\ height = [f \in NormFields |-> 0]
        /\ dirty = FALSE
        /\ editLabel = CancelText
        /\ saveDisplay = "inline-block"
        /\ loading = FALSE
        /\ submitCalls = 0
        /\ rafQueue = << >>
        /\ pasteTimers = [f \in NormFields |-> 0]
        /\ submitTimers = 0
        /\ ev = Event("value", 0, "", FALSE, 0)

NormNext == \E f \in Fields : Blur(f)

SpecNorm == NormInit /\ [][NormNext]_vars

-----------------------------------------------------------------------------
(* Vocabulary of the properties *)

\* the controls with role="tab", in DOM order
TabControls == SelectSeq([i \in TabEls |-> i], LAMBDA i : TabBar[i].role = "tab")
TabControlSet == SeqRange(TabControls)

ActiveSections == { s \in Sections : secActive[s] }

\* the tracked fields: every input without readonly, every select, every textarea
Tracked ==
    { f \in Fields : \/ form.fields[f].tag \in { "select", "textarea" }
                     \/ form.fields[f].tag = "input" /\ ~form.fields[f].readonly }

Locked  == \A f \in Tracked : disabled[f]
Editing == Tracked # {} /\ \A f \in Tracked : ~disabled[f]

\* the tab a handler run has activated, 0 if it activated none
Activated ==
    IF ev.type = "click-tab" THEN ev.target
    ELSE IF ev.type = "keydown" THEN ev.focused
    ELSE 0

-----------------------------------------------------------------------------
(* C1: after initialization exactly one section has class active, that     *)
(* section is not hidden and every other section is hidden, whatever the   *)
(* markup served and whatever events followed.                             *)
C1_ExactlyOneSectionShown ==
    ready =>
        /\ Cardinality(ActiveSections) = 1
        /\ \A s \in Sections : IF secActive[s] THEN ~secHidden[s] ELSE secHidden[s]

(* C2: when the markup marks no section active, initialization makes the   *)
(* default section "basic-info" active and not hidden.                     *)
C2_DefaultSectionActivated ==
    [][ (ev'.type = "DOMContentLoaded" /\ ActiveSections = {})
            => (secActive'["basic-info"] /\ ~secHidden'["basic-info"]) ]_vars

(* C3: after initialization the hidden attribute of every section is the   *)
(* negation of its active class.                                           *)
C3_HiddenIsNotActive ==
    ready => \A s \in Sections : secHidden[s] = ~secActive[s]

(* C4: after initialization exactly one tab control is active (class and   *)
(* aria-selected="true") and its target is the id of the one active        *)
(* section.                                                                *)
C4_OneActivePair ==
    ready =>
        \E t \in TabControlSet :
            /\ tabActive[t] /\ ariaSelected[t] = "true"
            /\ \A u \in TabControlSet \ {t} : ~tabActive[u] /\ ariaSelected[u] # "true"
            /\ ActiveSections = { TabBar[t].target }

(* C5: when the handler that activates tab T (click or arrow key) returns, *)
(* the section T targets is active and not hidden, every other section is  *)
(* inactive and hidden, T is active with aria-selected="true" and every    *)
(* other tab is inactive with aria-selected="false".                       *)
C5_ActivationResult ==
    Activated \in TabControlSet =>
        LET T == Activated IN
        /\ \A s \in Sections : /\ secActive[s] = (s = TabBar[T].target)
                               /\ secHidden[s] = (s # TabBar[T].target)
        /\ tabActive[T] /\ ariaSelected[T] = "true"
        /\ \A u \in TabControlSet \ {T} : ~tabActive[u] /\ ariaSelected[u] = "false"

\* the tab control k places after the one at 0-based index i, circularly
Circular(i, k) == TabControls[((i + k) % Len(TabControls)) + 1]

(* C6: ArrowRight on the tab at index i focuses and activates the tab at   *)
(* index (i+1) mod n, ArrowLeft the tab at index (i-1) mod n, and both     *)
(* suppress the default; any other key leaves the active tab and section   *)
(* unchanged and does not suppress the default.                            *)
C6_ArrowKeysWrap ==
    [][ ev'.type = "keydown" =>
          LET i == IndexOf(TabControls, ev'.target)
              n == Len(TabControls)
              expected == IF ev'.key = "ArrowRight" THEN Circular(i, 1)
                          ELSE Circular(i, n - 1)
          IN  IF ev'.key \in { "ArrowRight", "ArrowLeft" }
              THEN /\ ev'.focused = expected
                   /\ ev'.defaultPrevented
                   /\ \A t \in TabControlSet : tabActive'[t] = (t = expected)
                   /\ ActiveSections' = { TabBar[expected].target }
              ELSE /\ ~ev'.defaultPrevented
                   /\ ev'.focused = 0
                   /\ UNCHANGED << tabActive, ariaSelected, secActive, secHidden >>
      ]_vars

\* ArrowRight on the last tab has wrapped to the first
C6_Witness ==
    /\ ev.type = "keydown" /\ ev.key = "ArrowRight"
    /\ ev.target = TabControls[Len(TabControls)]
    /\ tabActive[TabControls[1]]
    /\ ev.focused = TabControls[1]

(* C7: the edit control activated while the tracked fields are disabled    *)
(* enables every tracked field, leaves the read-only fields as they were,  *)
(* sets the label to the cancel label and reveals the save control.        *)
C7_EnterEditMode ==
    [][ (ev'.type = "click-edit" /\ Locked) =>
            /\ \A f \in Tracked : ~disabled'[f]
            /\ \A f \in Fields \ Tracked : disabled'[f] = disabled[f]
            /\ editLabel' = CancelText
            /\ form.saveBtn => saveDisplay' = "inline-block"
      ]_vars

\* edit mode entered on a form with tracked fields and a read-only field
C7_Witness ==
    /\ ev.type = "click-edit"
    /\ Editing
    /\ Fields \ Tracked # {}
    /\ editLabel = CancelText
    /\ saveDisplay = "inline-block"

(* C8: the edit control activated again after edit mode was entered        *)
(* returns to Locked on every form, a form without tracked fields          *)
(* included: tracked fields disabled, dirty false, the edit label          *)
(* restored, the save control hidden.                                      *)
C8_CancelReturnsToLocked ==
    [][ (ev'.type = "click-edit" /\ editLabel = CancelText) =>
            /\ \A f \in Tracked : disabled'[f]
            /\ ~dirty'
            /\ editLabel' = EditText
            /\ saveDisplay' = "none"
      ]_vars

(* C9: an input event on a tracked field in edit mode sets the dirty flag; *)
(* an attempt to leave the page raises the confirmation prompt exactly     *)
(* when the dirty flag is set; cancelling edit mode clears the flag, so    *)
(* leaving right after it raises no prompt.  The flag and the unload       *)
(* listener exist in the main variant only.                                *)
C9_DirtyTracking ==
    /\ [](variant = "main" /\ ev.type = "input" /\ ev.target \in Tracked => dirty)
    /\ [](ev.type = "beforeunload" => (ev.defaultPrevented <=> dirty))
    /\ [][ /\ (variant = "main" /\ ev'.type = "click-edit" /\ Editing) => ~dirty'
           /\ (ev.type = "click-edit" /\ Locked /\ ev'.type = "beforeunload")
                  => ~ev'.defaultPrevented
       ]_vars

\* the user typed in edit mode and the attempt to leave raised the prompt
C9_Witness ==
    /\ ev.type = "beforeunload"
    /\ ev.defaultPrevented
    /\ Editing

(* C10: a save activation leaves every list-kind text area normalized and  *)
(* the loading indicator active, and there is exactly one form             *)
(* submission, made or pending, never more, also when the save control is  *)
(* activated again before a pending deferred submission has run.           *)
C10_ExactlyOneSubmission ==
    /\ submitCalls + submitTimers <= 1
    /\ ev.type = "click-save" =>
          /\ \A f \in listAreas : value[f] = normalizeCommaNewlines(value[f])
          /\ form.loading => loading
          /\ submitCalls + submitTimers = 1

-----------------------------------------------------------------------------
\* the text the list text area holds
ListText == value[CHOOSE f \in listAreas : TRUE]

\* the number of LF characters that directly follow position i of s
RECURSIVE LfAfter(_, _)
LfAfter(s, i) == IF i < Len(s) /\ s[i + 1] = LF THEN 1 + LfAfter(s, i + 1) ELSE 0

(* C11, as stated: in the result of normalizeCommaNewlines every comma, at *)
(* whatever position, is immediately followed by exactly one newline.      *)
C11_EveryCommaThenNewline ==
    ev.type = "blur" =>
        \A i \in 1..Len(ListText) : ListText[i] = COMMA => LfAfter(ListText, i) = 1

(* C11, amended: in the result of normalizeCommaNewlines every comma that  *)
(* is not the last character is immediately followed by exactly one        *)
(* newline; a comma that ends the result is followed by nothing, because   *)
(* the final trim removes the newline written after it.                    *)
C11_InnerCommaThenNewline ==
    ev.type = "blur" =>
        \A i \in 1..Len(ListText) :
            ListText[i] = COMMA =>
                IF i = Len(ListText) THEN TRUE ELSE LfAfter(ListText, i) = 1

\* a result with two commas, each followed by one newline
C11_Witness ==
    /\ ev.type = "blur"
    /\ ListText = << "a", COMMA, LF, COMMA, LF, "a" >>

C13_NoLongRunNoOuterSpace ==
    ev.type = "blur" =>
        /\ \A i \in 1..Len(ListText) : LfAfter(ListText, i) < 3
        /\ LfAfter(ListText, 0) < 3
        /\ ListText # << >> =>
              /\ ListText[1] \notin { SP, LF, CR }
              /\ ListText[Len(ListText)] \notin { SP, LF, CR }

\* a run of newlines collapsed to two between two letters
C13_Witness ==
    /\ ev.type = "blur"
    /\ ListText = << "a", LF, LF, "a" >>

\* the controls of the tab bar that are not tabs
ButtonControls == { t \in TabEls : TabBar[t].role = "button" }

(* C14: the role="button" control takes no part in tab switching: a click  *)
(* or a key on it changes neither the active tab nor the sections, and no  *)
(* handler run leaves it active or moves the focus onto it.                *)
C14_ButtonExcluded ==
    [][ /\ \A t \in ButtonControls : ~tabActive'[t] /\ ev'.focused # t
        /\ (ev'.type \in { "click-tab", "keydown" } /\ ev'.target \in ButtonControls)
              => UNCHANGED << tabActive, ariaSelected, secActive, secHidden >>
      ]_vars

(* C15: autoResize never runs on a text area of a section that is not      *)
(* displayed, in any interleaving of events, deferred callbacks and the    *)
(* initial resize pass.  A resize of an undisplayed text area reads a      *)
(* scroll height of 0 and so leaves exactly the offset as the height.      *)
C15_ResizeOnlyDisplayed ==
    \A f \in Fields : height[f] # ResizeOffset

(* C16: whenever the form is actually submitted, every list-kind text area *)
(* holds a normalized text and the loading indicator is active, also when  *)
(* the submission is the deferred one and events came in between.          *)
C16_SubmittedNormalized ==
    [][ submitCalls' > submitCalls =>
            /\ \A f \in listAreas : value'[f] = normalizeCommaNewlines(value'[f])
            /\ form.loading => loading'
      ]_vars

(* C17: when the same event arrives twice before the deferred callback of  *)
(* the first has run, both callbacks run and the second changes nothing:   *)
(* the text, the heights, the loading indicator and the number of          *)
(* submissions are as if only one had run.                                 *)
C17_SecondCallbackChangesNothing ==
    [][ (ev.type \in { "timeout-paste", "timeout-submit" } /\ ev' = ev)
            => UNCHANGED << value, height, loading, submitCalls >>
      ]_vars

(* C18: the dirty flag is false in every state where the form is Locked;   *)
(* it is true only while the form is Editing.                              *)
C18_DirtyOnlyWhileEditing ==
    /\ Locked => ~dirty
    /\ dirty => Editing

\* edit mode was cancelled after the user had typed: the text stays, the flag is cleared
C18_Witness ==
    /\ variant = "main"
    /\ ev.type = "click-edit"
    /\ Tracked # {} /\ Locked
    /\ \E f \in Tracked : value[f] = << "b" >>
    /\ ~dirty

(* C19: the edit control, in either direction, leaves every field value    *)
(* and the tab and section state unchanged; a tab activation leaves the    *)
(* disabled state of the fields, the dirty flag, the edit label and the    *)
(* visibility of the save control unchanged.                               *)
C19_EditAndTabsIndependent ==
    [][ /\ ev'.type = "click-edit" => UNCHANGED << value, tabVars >>
        /\ ev'.type \in { "click-tab", "keydown" }
              => UNCHANGED << disabled, dirty, editLabel, saveDisplay >>
      ]_vars

\* edit mode was entered on another tab than the first, with the typed text kept
C19_Witness ==
    /\ ev.type = "click-edit"
    /\ Editing
    /\ secActive["career"]
    /\ \E f \in Tracked : value[f] = << "b" >>

(* C20: a save activation and the submission it makes change neither the   *)
(* dirty flag nor the edit mode: a flag set before the save is still set   *)
(* when the form is submitted, and after the save activation the tracked   *)
(* fields are enabled as before, the label is still the cancel label and   *)
(* the save control is still visible.                                      *)
C20_SaveKeepsEditMode ==
    [][ /\ ev'.type \in { "click-save", "timeout-submit" }
              => UNCHANGED << dirty, disabled, editLabel, saveDisplay >>
        /\ ev'.type = "click-save"
              => /\ \A f \in Tracked : ~disabled'[f]
                 /\ editLabel' = CancelText
                 /\ saveDisplay' # "none"
        /\ (submitCalls' > submitCalls /\ dirty) => dirty'
      ]_vars

\* the form was submitted with unsaved edits: the flag is still set
C20_Witness ==
    /\ ev.type = "click-save"
    /\ submitCalls >= 1
    /\ dirty
    /\ Editing

=============================================================================
